---- MODULE Spec2Model ----
(***************************************************************************)
(* State-machine model of BlobCache (src/blob_cache.py): a persistent      *)
(* key-value store made of an append-only data file, an index snapshot     *)
(* file and a write-ahead log (WAL).                                       *)
(*                                                                         *)
(* Files are modelled by their contents.  A data file is a sequence of     *)
(* items (the header, a frame holding a value, or bytes that are not a     *)
(* whole frame), each with its size in bytes, so that offsets, tell() and  *)
(* the fragmentation ratio are the numbers the code computes.  Every       *)
(* public operation runs under BlobCache._thread_lock, so one operation    *)
(* is one atomic step, except where a claim is about what happens inside   *)
(* it: set_on_miss and get with a callback are split at the lock, close()  *)
(* at the release of the file lock, and a crash of the process may cut a   *)
(* set() or a vacuum() short between its file writes.                      *)
(*                                                                         *)
(* A path names a file; a descriptor keeps the file it was opened on when  *)
(* os.replace or os.remove gives the path to another file or to none.      *)
(* dataLinked / fdData and walLinked record which file each descriptor is  *)
(* on.  Reading bytes that are not a whole frame yields ReadError.         *)
(*                                                                         *)
(* Time is counted in ticks of 1/TicksPerSec second; expirations are whole *)
(* seconds.  The specifications share the actions; each takes the ones a   *)
(* group of properties is about: Spec (one process), SpecTtl (ttls and a   *)
(* running clock), SpecCrash (process death), SpecProcs (two processes on  *)
(* one base path), and the narrower ones defined after them.               *)
(***************************************************************************)
EXTENDS Integers, Sequences, FiniteSets, TLC

\* ------------------------------------------------------------ bounds ----
\* Largest number of items (header, frames, torn bytes) a data file holds.
MaxItems == 3
\* The wall clock stops advancing at this tick.
MaxNow == 5
\* Clock ticks per second: time.time() is a float, expirations whole seconds.
TicksPerSec == 2
\* Largest ttl (seconds) a caller passes.
MaxTtl == 1
\* Largest number of times the store is opened (BlobCache objects constructed).
MaxOpens == 2
\* Largest number of explicit vacuum() calls on one handle.
MaxVacuums == 1
\* Largest value of the hits and of the misses counter of one handle.
MaxStat == 2
\* Items by which rewrites of existing keys may grow a data file past MaxItems.
MaxRewrites == 2

\* --------------------------------------------------- program constants --
\* len(BlobCache.header_data_file), the magic b'blob.cache.data.01'
HeaderLen == 18
\* auto_vacuum_threshold, default 0.5 = AutoVacuumNum / AutoVacuumDen
AutoVacuumNum == 1
AutoVacuumDen == 2

\* ----------------------------------------------------------- inputs -----
Procs == {1, 2}
\* The process that issues the mutations; process 2 only opens and closes.
Writer == 1
\* The threads of the writer process that call into the store.
Threads == {1, 2}
Keys == {"a", "ab"}
\* The str values 'abc' and 'hello'.
Values == {"abc", "hello"}
\* Values of the other Python types a caller may pass, written as Python
\* writes them: None, True, 1, 1.5, the list [1, 2], the dict {'k': 1}, the
\* bytes b'"abc"', the tuple (1, 2) and the set {1, 2}.
OtherValues == {"None", "True", "1", "1.5", "[1, 2]", "{'k': 1}", "b'\"abc\"'",
                "(1, 2)", "{1, 2}"}
AllValues == Values \cup OtherValues
\* One value of each category the store is documented to accept: null,
\* boolean, integer, floating-point, string, sequence, mapping, raw bytes.
AcceptedValues == AllValues \ {"(1, 2)", "{1, 2}"}
\* The values _set_unsafe rejects: None (ValueError) and the set {1, 2}
\* (TypeError of json.dumps).
RejectedValues == {"None", "{1, 2}"}
\* The prefixes delete_startswith is called with.
Prefixes == {"", "a", "ab", "b"}
\* The characters of a key or prefix.
Chars(str) ==
    CASE str = "" -> <<>>
      [] str = "a" -> <<"a">>
      [] str = "b" -> <<"b">>
      [] str = "ab" -> <<"a", "b">>
\* k.startswith(prefix)
StartsWith(k, prefix) ==
    /\ Len(Chars(prefix)) <= Len(Chars(k))
    /\ SubSeq(Chars(k), 1, Len(Chars(prefix))) = Chars(prefix)

\* Two values whose frames differ in size: 14 and 21 bytes.
SizedValues == {"1", "{'k': 1}"}

\* ttl=None (the default of the ttl parameter)
NoTtl == -1
Ttls == {NoTtl} \cup (0..MaxTtl)

\* What get() yields when the bytes at the offset are not a frame
\* (struct.error / zlib.error), and the view of a key has() rejects.
ReadError == "ERR"
Absent == "ABSENT"

\* type(value)
TypeOf(v) ==
    CASE v = "None" -> "NoneType"
      [] v = "True" -> "bool"
      [] v = "1" -> "int"
      [] v = "1.5" -> "float"
      [] v = "[1, 2]" -> "list"
      [] v = "{'k': 1}" -> "dict"
      [] v = "b'\"abc\"'" -> "bytes"
      [] v = "(1, 2)" -> "tuple"
      [] v = "{1, 2}" -> "set"
      [] OTHER -> "str"

\* json.dumps(value): the text, or TypeError for a set.
JsonDumps(v) ==
    CASE v = "None" -> "null"
      [] v = "True" -> "true"
      [] v = "abc" -> "\"abc\""
      [] v = "hello" -> "\"hello\""
      [] v = "(1, 2)" -> "[1, 2]"
      [] v = "{'k': 1}" -> "{\"k\": 1}"
      [] v = "{1, 2}" -> "TypeError"
      [] OTHER -> v

\* json.loads(text)
JsonLoads(text) ==
    CASE text = "null" -> "None"
      [] text = "true" -> "True"
      [] text = "\"abc\"" -> "abc"
      [] text = "\"hello\"" -> "hello"
      [] text = "{\"k\": 1}" -> "{'k': 1}"
      [] OTHER -> text

\* The bytes object holding the given bytes, and the bytes it holds.
BytesOf(data) == IF data = "\"abc\"" THEN "b'\"abc\"'" ELSE data
RawBytes(v) == IF v = "b'\"abc\"'" THEN "\"abc\"" ELSE v

\* The value classification of _set_unsafe: is_bytes and data, or the error
\* raised before anything is written.
Classify(v) ==
    IF TypeOf(v) = "bytes"
    THEN [err |-> "", is_bytes |-> 1, data |-> RawBytes(v)]
    ELSE IF TypeOf(v) \in {"bool", "tuple", "str", "set", "dict", "list", "int", "float"}
    THEN IF JsonDumps(v) = "TypeError"
         THEN [err |-> "TypeError", is_bytes |-> 0, data |-> ""]
         ELSE [err |-> "", is_bytes |-> 0, data |-> JsonDumps(v)]
    ELSE [err |-> "ValueError", is_bytes |-> 0, data |-> ""]

\* len of the frame _append_frame_to_data_file_unsafe writes for a value:
\* 1 byte is_bytes + 4 bytes length + len(zlib.compress(data)).
FrameLength(v) ==
    CASE Classify(v).data \in {"null", "true"} -> 17
      [] Classify(v).data = "1" -> 14
      [] Classify(v).data = "1.5" -> 16
      [] Classify(v).data = "\"abc\"" -> 18
      [] Classify(v).data = "[1, 2]" -> 19
      [] Classify(v).data = "{\"k\": 1}" -> 21
      [] OTHER -> 20
\* Bytes of a frame that reach the file when a write is cut short.
TornLen == 5

Min(a, b) == IF a < b THEN a ELSE b

\* ------------------------------------------------------- data file ------
Hdr == [kind |-> "hdr", val |-> "", size |-> HeaderLen]
\* The frame of a value: the discriminator byte, the (compressed) data.
Frame(v) == [kind |-> "frame", is_bytes |-> Classify(v).is_bytes,
             val |-> Classify(v).data, size |-> FrameLength(v)]
Junk(n) == [kind |-> "junk", val |-> "", size |-> n]

RECURSIVE Size(_)
\* Size in bytes of a file content.
Size(c) == IF c = <<>> THEN 0 ELSE Head(c).size + Size(Tail(c))

\* Offset of item i of content c.
Offset(c, i) == Size(SubSeq(c, 1, i - 1))

\* The end of _read_frame_from_data_file_unsafe: json.loads unless is_bytes.
Decode(frame) ==
    IF frame.is_bytes = 0 THEN JsonLoads(frame.val) ELSE BytesOf(frame.val)

\* _read_frame_from_data_file_unsafe: seek(start), decode the frame there.
ReadFrame(c, start) ==
    IF \E i \in 1..Len(c) : c[i].kind = "frame" /\ Offset(c, i) = start
    THEN Decode(c[CHOOSE i \in 1..Len(c) : c[i].kind = "frame" /\ Offset(c, i) = start])
    ELSE ReadError

RECURSIVE Slice(_, _, _)
\* seek(a); read(n): the bytes [a, a+n) of content c, short at end of file.
\* An item covered whole is read whole; a part of an item is junk.
Slice(c, a, n) ==
    IF c = <<>> \/ n <= 0 THEN <<>>
    ELSE LET h == Head(c) IN
         IF a >= h.size THEN Slice(Tail(c), a - h.size, n)
         ELSE IF a = 0 /\ n >= h.size
              THEN <<h>> \o Slice(Tail(c), 0, n - h.size)
              ELSE LET take == Min(h.size - a, n)
                   IN <<Junk(take)>> \o Slice(Tail(c), 0, n - take)

\* ----------------------------------------------------------- index ------
Entry(k, start, length, expires) ==
    [key |-> k, start |-> start, length |-> length, expires |-> expires]

\* `key in index`
InIndex(idx, k) == \E i \in 1..Len(idx) : idx[i].key = k
\* index[key]
Lookup(idx, k) == idx[CHOOSE i \in 1..Len(idx) : idx[i].key = k]
\* index[key] = entry: a dict keeps the position of a key it already holds.
IdxPut(idx, e) ==
    IF InIndex(idx, e.key)
    THEN [i \in 1..Len(idx) |-> IF idx[i].key = e.key THEN e ELSE idx[i]]
    ELSE Append(idx, e)
\* del index[key]
IdxDel(idx, k) == SelectSeq(idx, LAMBDA e : e.key # k)

\* ------------------------------------------------------------ WAL -------
PutRec(e) == [op |-> "put", key |-> e.key, start |-> e.start,
              length |-> e.length, expires |-> e.expires]
DelRec(k) == [op |-> "del", key |-> k, start |-> 0, length |-> 0, expires |-> 0]
\* A record cut short by a crash: inside the 4 bytes of the key length
\* (cut = "len") or after them (cut = "body").
CutRec(k, cut) == [op |-> cut, key |-> k, start |-> 0, length |-> 0, expires |-> 0]

\* The expiry filter of _load_index_unsafe: expires == 0 or expires > now.
LoadKeeps(expires, t) == expires = 0 \/ expires * TicksPerSec > t

RECURSIVE LoadRecords(_, _, _)
\* The index-file loop of _load_index_unsafe.
LoadRecords(recs, idx, t) ==
    IF recs = <<>> THEN idx
    ELSE LET e == Head(recs) IN
         LoadRecords(Tail(recs),
                     IF LoadKeeps(e.expires, t) THEN IdxPut(idx, e) ELSE idx, t)

RECURSIVE ReplayWal(_, _, _)
\* The WAL loop of _load_index_unsafe, up to a record cut inside its key
\* length (len(key_length_bytes) < 4: break).
ReplayWal(recs, idx, t) ==
    IF recs = <<>> THEN idx
    ELSE LET r == Head(recs) IN
         IF r.op = "len" THEN idx
         ELSE IF r.op = "put"
              THEN ReplayWal(Tail(recs),
                             IF LoadKeeps(r.expires, t)
                             THEN IdxPut(idx, Entry(r.key, r.start, r.length, r.expires))
                             ELSE idx, t)
              ELSE ReplayWal(Tail(recs), IdxDel(idx, r.key), t)

\* struct.unpack on a short read raises struct.error: a record cut after
\* its key length makes _load_index_unsafe, and so the open, fail.
LoadRaises(wexists, wal) ==
    wexists /\ \E i \in 1..Len(wal) :
        wal[i].op = "body" /\ \A j \in 1..(i - 1) : wal[j].op # "len"

\* _load_index_unsafe: the index file, then the WAL on top of it.
LoadIndex(ifile, wexists, wal, t) ==
    LET fromFile == LoadRecords(ifile, <<>>, t)
    IN IF wexists THEN ReplayWal(wal, fromFile, t) ELSE fromFile

\* ------------------------------------------------------------ state -----
VARIABLES
    now,         \* time.time(), in ticks
    dataPath,    \* content of the file at <base>.data.bin (empty when missing)
    pathLock,    \* process holding flock on the file at the data path, 0 = none
    indexFile,   \* records of <base>.index.bin (empty when missing)
    walExists,   \* os.path.exists(<base>.wal.bin)
    walPath,     \* records of the file at <base>.wal.bin
    walLinked,   \* processes whose wal_file_fd is the file at the WAL path
    handle,      \* per process: "none" (no object), "open", "closed", or
                 \* "closing" (inside close(), the file lock released)
    index,       \* per process: self.index, in dict (insertion) order
    dataLinked,  \* per process: its data descriptors are the file at the data path
    fdData,      \* per process: content of the replaced (unlinked) data file
                 \* its descriptors still refer to, when not dataLinked
    appendBuf,   \* per process: bytes written to data_file_append_fd, not flushed
    stats,       \* per process: self.stats, the five counters
    latest,      \* history: per process and key, the latest set() on this handle
    snap,        \* history: what the keys showed before the last vacuum/close/crash
    opens,       \* history: number of __init__ calls so far
    vacuums,     \* history: per process, vacuum() calls on its current handle
    ret,         \* the last operation and what it returned
    mutex,       \* per process: the thread holding BlobCache._thread_lock, 0 = free
    pc           \* per thread of the writer process: where it is in a call

vars == <<now, dataPath, pathLock, indexFile, walExists, walPath, walLinked,
          handle, index, dataLinked, fdData, appendBuf, stats, latest, snap,
          opens, vacuums, ret, mutex, pc>>

\* self.stats as __init__ sets it
NoStats == [hits |-> 0, sets |-> 0, deletes |-> 0, misses |-> 0, refreshes |-> 0]

NoVal == "NONE"
NoLatest == [k \in Keys |-> [val |-> NoVal, expires |-> 0]]
NoSnap == [kind |-> "none", view |-> [k \in Keys |-> Absent], key |-> "", val |-> ""]
Ret(op, p, k, arg, val) == [op |-> op, p |-> p, key |-> k, arg |-> arg, val |-> val]

\* A thread that is in no call.
Idle == [at |-> "idle", key |-> "", val |-> "", ttl |-> 0]

\* `with self._thread_lock:` around an operation that runs to its end in one
\* step: the lock is free, a thread of the process is there to make the call,
\* and the lock is free again afterwards.
Serial(p) ==
    /\ mutex[p] = 0
    /\ p = Writer => \E t \in Threads : pc[t].at = "idle"
    /\ UNCHANGED <<mutex, pc>>

\* The on-disk content of the file process p's data descriptors refer to.
CurData(p) == IF dataLinked[p] THEN dataPath ELSE fdData[p]

\* data_file_append_fd.tell(): the file's size plus the buffered bytes.
Tell(p) == Size(CurData(p)) + Size(appendBuf[p])

\* _has_unsafe
HasUnsafe(p, k) ==
    ~ (\/ ~ InIndex(index[p], k)
       \/ /\ Lookup(index[p], k).expires # 0
          /\ now > Lookup(index[p], k).expires * TicksPerSec)

\* What _get_unsafe returns for an observable key: the frame at entry['start'].
GetValue(p, k) == ReadFrame(CurData(p), Lookup(index[p], k).start)

\* What has()/get() show of key k on process p's handle.
View(p, k) == IF HasUnsafe(p, k) THEN GetValue(p, k) ELSE Absent
ViewOf(p) == [k \in Keys |-> View(p, k)]

\* expires = int(time.time() + ttl) if ttl else 0
Expires(ttl, t) ==
    IF ttl # NoTtl /\ ttl # 0 THEN (t + ttl * TicksPerSec) \div TicksPerSec ELSE 0

RECURSIVE SumLength(_)
\* size_index: the sum of entry['length'] over the index.
SumLength(idx) == IF idx = <<>> THEN 0 ELSE Head(idx).length + SumLength(Tail(idx))

\* _fragmentation_ratio_unsafe, as the fraction FragNum / FragDen.
SizeFile(p) == Tell(p) - HeaderLen
\* The numerator of size_index / size_file, the share of the file the index
\* uses (what the numerator of the fragmentation ratio must not be).
UsedNum(p) == IF SizeFile(p) <= 0 THEN 0 ELSE SumLength(index[p])
FragNum(p) == IF SizeFile(p) <= 0 THEN 0 ELSE SizeFile(p) - SumLength(index[p])
FragDen(p) == IF SizeFile(p) <= 0 THEN 1 ELSE SizeFile(p)

\* A close() that vacuums already at the threshold (what the comparison of
\* close() must not be).
AutoVacuumAtThreshold(p) == FragNum(p) * AutoVacuumDen >= AutoVacuumNum * FragDen(p)
\* close(): self._fragmentation_ratio_unsafe() > self.auto_vacuum_threshold
AutoVacuum(p) == FragNum(p) * AutoVacuumDen > AutoVacuumNum * FragDen(p)

RECURSIVE VacuumCopy(_, _, _, _)
\* The loop of _vacuum_unsafe: for each index entry read entry['length']
\* bytes at entry['start'] through the read descriptor and append them to
\* the temporary file; [data, index] are the new file and new_index.
VacuumCopy(src, idx, out, newIdx) ==
    IF idx = <<>> THEN [data |-> out, index |-> newIdx]
    ELSE LET e == Head(idx)
             frame == Slice(src, e.start, e.length)
         IN VacuumCopy(src, Tail(idx), out \o frame,
                       Append(newIdx, Entry(e.key, Size(out), Size(frame), e.expires)))

\* The temporary data file and new_index _vacuum_unsafe builds for process p.
Vacuumed(p) == VacuumCopy(CurData(p), index[p], <<>>, <<>>)

Init ==
    /\ now = TicksPerSec
    /\ dataPath = <<>>
    /\ pathLock = 0
    /\ indexFile = <<>>
    /\ walExists = FALSE
    /\ walPath = <<>>
    /\ walLinked = {}
    /\ handle = [p \in Procs |-> "none"]
    /\ index = [p \in Procs |-> <<>>]
    /\ dataLinked = [p \in Procs |-> FALSE]
    /\ fdData = [p \in Procs |-> <<>>]
    /\ appendBuf = [p \in Procs |-> <<>>]
    /\ stats = [p \in Procs |-> NoStats]
    /\ latest = [p \in Procs |-> NoLatest]
    /\ snap = NoSnap
    /\ opens = 0
    /\ vacuums = [p \in Procs |-> 0]
    /\ ret = Ret("init", 0, "", 0, "")
    /\ mutex = [p \in Procs |-> 0]
    /\ pc = [t \in Threads |-> Idle]

\* ---------------------------------------------------------- actions -----
\* BlobCache.__init__
Open(p) ==
    /\ Serial(p)
    /\ handle[p] # "open"
    /\ opens < MaxOpens
    /\ opens' = opens + 1
    /\ vacuums' = [vacuums EXCEPT ![p] = 0]
    /\ snap' = IF snap.kind \in {"close", "crash", "crashset", "crashvacuum"}
               THEN snap ELSE NoSnap
    /\ IF pathLock # 0
       THEN \* _lock_file_unsafe raises: flock(LOCK_EX | LOCK_NB) fails
            /\ ret' = Ret("open", p, "", 0, "busy")
            /\ UNCHANGED <<now, dataPath, pathLock, indexFile, walExists, walPath,
                           walLinked, handle, index, dataLinked, fdData,
                           appendBuf, stats, latest>>
       ELSE IF LoadRaises(walExists, walPath)
       THEN \* _load_index_unsafe raises; the append descriptor is dropped,
            \* which flushes the header written to an empty file and
            \* releases the lock
            /\ ret' = Ret("open", p, "", 0, "error")
            /\ dataPath' = IF dataPath = <<>> THEN <<Hdr>> ELSE dataPath
            /\ handle' = [handle EXCEPT ![p] = "none"]
            /\ UNCHANGED <<now, pathLock, indexFile, walExists, walPath, walLinked,
                           index, dataLinked, fdData, appendBuf, stats, latest>>
       ELSE /\ ret' = Ret("open", p, "", 0, "ok")
            /\ pathLock' = p
            /\ dataLinked' = [dataLinked EXCEPT ![p] = TRUE]
            /\ fdData' = [fdData EXCEPT ![p] = <<>>]
            /\ appendBuf' = [appendBuf EXCEPT
                                ![p] = IF Size(dataPath) = 0 THEN <<Hdr>> ELSE <<>>]
            /\ index' = [index EXCEPT
                            ![p] = LoadIndex(indexFile, walExists, walPath, now)]
            \* os.remove(self.wal_file), then open(self.wal_file, 'ab')
            /\ walExists' = TRUE
            /\ walPath' = <<>>
            /\ walLinked' = {p}
            /\ handle' = [handle EXCEPT ![p] = "open"]
            /\ stats' = [stats EXCEPT ![p] = NoStats]
            /\ latest' = [latest EXCEPT ![p] = NoLatest]
            /\ UNCHANGED <<now, dataPath, indexFile>>

\* The data file after process p's append descriptor writes `items` and
\* flushes: its buffered bytes first, then the items.
Flushed(p, items) == CurData(p) \o appendBuf[p] \o items

\* The effect of the flush on the file system.
FlushData(p, items) ==
    /\ appendBuf' = [appendBuf EXCEPT ![p] = <<>>]
    /\ IF dataLinked[p]
       THEN dataPath' = Flushed(p, items) /\ UNCHANGED fdData
       ELSE fdData' = [fdData EXCEPT ![p] = Flushed(p, items)] /\ UNCHANGED dataPath

\* _append_to_wal_file_unsafe: write and flush one record through
\* wal_file_fd, which is the file at the WAL path only while linked to it.
AppendWal(p, rec) ==
    /\ walPath' = IF p \in walLinked THEN Append(walPath, rec) ELSE walPath
    /\ UNCHANGED <<walExists, walLinked>>

\* The room the model leaves for one more item in p's data file, beyond the
\* items the calls already under way in the writer's threads may append.
HasRoom(p) ==
    Len(CurData(p)) + Len(appendBuf[p])
        + (IF p = Writer THEN Cardinality({t \in Threads : pc[t].at # "idle"}) ELSE 0)
    < MaxItems

\* _set_unsafe with the frame appended before the value is tested (the order
\* _set_unsafe must not have).
SetUnsafeAppendFirst(p, k, v, ttl) ==
    /\ handle[p] = "open"
    /\ UNCHANGED <<opens, vacuums>>
    /\ FlushData(p, <<Frame(v)>>)
    /\ IF Classify(v).err # ""
       THEN UNCHANGED <<index, walPath, walExists, walLinked, stats, latest>>
       ELSE /\ LET e == Entry(k, Tell(p), FrameLength(v), Expires(ttl, now))
               IN /\ index' = [index EXCEPT ![p] = IdxPut(index[p], e)]
                  /\ AppendWal(p, PutRec(e))
            /\ stats' = [stats EXCEPT ![p].sets = @ + 1]
            /\ latest' = [latest EXCEPT ![p][k] = [val |-> v, expires |-> 0]]
    /\ snap' = NoSnap
    /\ UNCHANGED <<now, pathLock, indexFile, handle, dataLinked>>

\* _set_unsafe on an open store: a value the classification rejects raises
\* before anything is written; otherwise the frame is appended and flushed,
\* the index updated, the put record appended to the WAL, sets counted.
\* ret is left to the public operation that makes the call.
SetUnsafe(p, k, v, ttl) ==
    /\ handle[p] = "open"
    /\ UNCHANGED <<opens, vacuums>>
    /\ IF Classify(v).err # ""
       THEN UNCHANGED <<dataPath, fdData, appendBuf, index, walPath, walExists,
                        walLinked, stats, latest>>
       ELSE /\ LET e == Entry(k, Tell(p), FrameLength(v), Expires(ttl, now))
               IN /\ FlushData(p, <<Frame(v)>>)
                  /\ index' = [index EXCEPT ![p] = IdxPut(index[p], e)]
                  /\ AppendWal(p, PutRec(e))
            /\ stats' = [stats EXCEPT ![p].sets = @ + 1]
            /\ latest' = [latest EXCEPT ![p][k] =
                             [val |-> v,
                              expires |-> IF ttl = NoTtl THEN 0
                                          ELSE (now + ttl * TicksPerSec)
                                                   \div TicksPerSec]]
    /\ snap' = NoSnap
    /\ UNCHANGED <<now, pathLock, indexFile, handle, dataLinked>>

\* set(): _set_unsafe under the lock
Set(p, k, v, ttl) ==
    /\ Serial(p)
    /\ HasRoom(p)
    /\ SetUnsafe(p, k, v, ttl)
    /\ ret' = Ret("set", p, k, ttl, IF Classify(v).err # "" THEN Classify(v).err ELSE "ok")

\* set() of a key the index already holds, in a workload of rewrites: the
\* data file may grow MaxRewrites items beyond MaxItems.
SetExisting(p, k, v) ==
    /\ Serial(p)
    /\ InIndex(index[p], k)
    /\ Len(CurData(p)) + Len(appendBuf[p]) < MaxItems + MaxRewrites
    /\ SetUnsafe(p, k, v, NoTtl)
    /\ ret' = Ret("set", p, k, NoTtl, IF Classify(v).err # "" THEN Classify(v).err ELSE "ok")

\* How much of a WAL record reaches the file when its write fails: nothing,
\* a part of the key length, or more than the key length.
WalFailures == {"none", "len", "body"}

\* set() in which the write or flush of the WAL record raises (OSError: disk
\* full, I/O error): the frame is in the data file and self.index[key] is
\* assigned before _append_to_wal_file_unsafe is called; sets is not counted.
SetWalFails(p, k, v, ttl, cut) ==
    /\ Serial(p)
    /\ HasRoom(p)
    /\ handle[p] = "open"
    /\ Classify(v).err = ""
    /\ LET e == Entry(k, Tell(p), FrameLength(v), Expires(ttl, now))
       IN /\ FlushData(p, <<Frame(v)>>)
          /\ index' = [index EXCEPT ![p] = IdxPut(index[p], e)]
          /\ walPath' = IF p \in walLinked /\ cut # "none"
                        THEN Append(walPath, CutRec(k, cut)) ELSE walPath
    /\ snap' = NoSnap
    /\ ret' = Ret("set", p, k, ttl, "OSError")
    /\ UNCHANGED <<now, pathLock, indexFile, walExists, walLinked, handle,
                   dataLinked, stats, latest, opens, vacuums>>

\* A public operation raises because the store is closed (the assert on
\* data_file_read_fd at the top of every _unsafe method); nothing changes.
RaiseClosed(op, p, k) ==
    /\ ret' = Ret(op, p, k, 0, "closed")
    /\ UNCHANGED <<now, dataPath, pathLock, indexFile, walExists, walPath, walLinked,
                   handle, index, dataLinked, fdData, appendBuf, stats, latest, snap,
                   opens, vacuums>>

\* A thread calls set_on_miss(k, v, ttl) and comes to `with self._thread_lock`.
SomCall(p, t, k, v, ttl) ==
    /\ pc[t].at = "idle"
    /\ handle[p] # "none"
    /\ HasRoom(p)
    /\ pc' = [pc EXCEPT ![t] = [at |-> "som_wait", key |-> k, val |-> v, ttl |-> ttl]]
    /\ UNCHANGED <<now, dataPath, pathLock, indexFile, walExists, walPath, walLinked,
                   handle, index, dataLinked, fdData, appendBuf, stats, latest, snap,
                   opens, vacuums, ret, mutex>>

\* set_on_miss entered without taking the lock (what SomEnter must not be).
SomEnterNoLock(p, t) ==
    /\ pc[t].at = "som_wait"
    /\ pc' = [pc EXCEPT ![t].at = "som_test"]
    /\ UNCHANGED <<now, dataPath, pathLock, indexFile, walExists, walPath, walLinked,
                   handle, index, dataLinked, fdData, appendBuf, stats, latest, snap,
                   opens, vacuums, ret, mutex>>

\* set_on_miss: the thread acquires the lock.
SomEnter(p, t) ==
    /\ pc[t].at = "som_wait"
    /\ mutex[p] = 0
    /\ mutex' = [mutex EXCEPT ![p] = t]
    /\ pc' = [pc EXCEPT ![t].at = "som_test"]
    /\ UNCHANGED <<now, dataPath, pathLock, indexFile, walExists, walPath, walLinked,
                   handle, index, dataLinked, fdData, appendBuf, stats, latest, snap,
                   opens, vacuums, ret>>

\* set_on_miss: `if not self._has_unsafe(key)`.  On a closed store the test
\* raises; on an observable key the call returns; both release the lock.
SomTest(p, t) ==
    /\ pc[t].at = "som_test"
    /\ IF handle[p] # "open" \/ HasUnsafe(p, pc[t].key)
       THEN /\ pc' = [pc EXCEPT ![t] = Idle]
            /\ mutex' = [mutex EXCEPT ![p] = 0]
            /\ IF handle[p] # "open"
               THEN RaiseClosed("set_on_miss", p, pc[t].key)
               ELSE /\ ret' = Ret("set_on_miss", p, pc[t].key, pc[t].ttl, "noop")
                    /\ UNCHANGED <<now, dataPath, pathLock, indexFile, walExists,
                                   walPath, walLinked, handle, index, dataLinked,
                                   fdData, appendBuf, stats, latest, snap, opens,
                                   vacuums>>
       ELSE /\ pc' = [pc EXCEPT ![t].at = "som_set"]
            /\ UNCHANGED <<now, dataPath, pathLock, indexFile, walExists, walPath,
                           walLinked, handle, index, dataLinked, fdData, appendBuf,
                           stats, latest, snap, opens, vacuums, ret, mutex>>

\* set_on_miss: self._set_unsafe(key, value, ttl), then the lock is released.
SomSet(p, t) ==
    /\ pc[t].at = "som_set"
    /\ SetUnsafe(p, pc[t].key, pc[t].val, pc[t].ttl)
    /\ ret' = Ret("set_on_miss", p, pc[t].key, pc[t].ttl,
                  IF Classify(pc[t].val).err # "" THEN Classify(pc[t].val).err ELSE "set")
    /\ pc' = [pc EXCEPT ![t] = Idle]
    /\ mutex' = [mutex EXCEPT ![p] = 0]

\* get(k, refresh_callback, new_ttl): _get_unsafe under the lock, up to the
\* return of a hit or to the call of refresh_callback(key) on a miss, which
\* is made with the lock held.
GetRefresh(p, t, k, ttl) ==
    /\ pc[t].at = "idle"
    /\ mutex[p] = 0
    /\ handle[p] # "none"
    /\ UNCHANGED <<now, dataPath, pathLock, indexFile, walExists, walPath, walLinked,
                   handle, index, dataLinked, fdData, appendBuf, latest, opens,
                   vacuums>>
    /\ IF handle[p] = "closed"
       THEN /\ ret' = Ret("get", p, k, 0, "closed")
            /\ UNCHANGED <<stats, snap, mutex, pc>>
       ELSE IF HasUnsafe(p, k)
       THEN /\ stats[p].hits < MaxStat
            /\ stats' = [stats EXCEPT ![p].hits = @ + 1]
            /\ ret' = Ret("get", p, k, ttl, GetValue(p, k))
            /\ snap' = NoSnap
            /\ UNCHANGED <<mutex, pc>>
       ELSE /\ stats[p].misses < MaxStat
            /\ HasRoom(p)
            /\ stats' = [stats EXCEPT ![p].misses = @ + 1, ![p].refreshes = @ + 1]
            /\ mutex' = [mutex EXCEPT ![p] = t]
            /\ pc' = [pc EXCEPT ![t] = [at |-> "callback", key |-> k, val |-> "",
                                        ttl |-> ttl]]
            /\ snap' = NoSnap
            /\ UNCHANGED ret

\* refresh_callback(key) returns v: self._set_unsafe(key, value, ttl=new_ttl),
\* return value; the lock is released.
CallbackReturns(p, t, v) ==
    /\ pc[t].at = "callback"
    /\ SetUnsafe(p, pc[t].key, v, pc[t].ttl)
    /\ ret' = Ret("get", p, pc[t].key, pc[t].ttl,
                  IF Classify(v).err # "" THEN Classify(v).err ELSE v)
    /\ pc' = [pc EXCEPT ![t] = Idle]
    /\ mutex' = [mutex EXCEPT ![p] = 0]

\* refresh_callback(key) calls a public operation of the store (has, get,
\* set, ...): the thread comes to `with self._thread_lock` while it holds
\* that lock itself.  threading.Lock is not re-entrant, so no step of this
\* thread, and no call of any other thread, follows.
CallbackCalls(p, t) ==
    /\ pc[t].at = "callback"
    /\ pc' = [pc EXCEPT ![t].at = "cb_wait"]
    /\ UNCHANGED <<now, dataPath, pathLock, indexFile, walExists, walPath, walLinked,
                   handle, index, dataLinked, fdData, appendBuf, stats, latest, snap,
                   opens, vacuums, ret, mutex>>

\* get() without a refresh_callback: _get_unsafe under the lock
Get(p, k) ==
    /\ Serial(p)
    /\ handle[p] = "open"
    /\ UNCHANGED <<opens, vacuums>>
    /\ IF HasUnsafe(p, k)
       THEN /\ stats[p].hits < MaxStat
            /\ stats' = [stats EXCEPT ![p].hits = @ + 1]
            /\ ret' = Ret("get", p, k, 0, GetValue(p, k))
       ELSE /\ stats[p].misses < MaxStat
            /\ stats' = [stats EXCEPT ![p].misses = @ + 1]
            /\ ret' = Ret("get", p, k, 0, "KeyError")
    /\ snap' = NoSnap
    /\ UNCHANGED <<now, dataPath, pathLock, indexFile, walExists, walPath, walLinked,
                   handle, index, dataLinked, fdData, appendBuf, latest>>

\* int(x) of the quotient a / b, b > 0: truncation toward zero.
IntDiv(a, b) == IF a >= 0 THEN a \div b ELSE -((-a) \div b)

\* when_expired(key, relative): the expiration of a key of the index, or
\* int(expires - time.time()) if relative; KeyError for a key not in it.
WhenExpired(p, k, relative) ==
    /\ Serial(p)
    /\ handle[p] = "open"
    /\ ret' = IF InIndex(index[p], k)
              THEN Ret("when_expired", p, k,
                       IF relative
                       THEN IntDiv(Lookup(index[p], k).expires * TicksPerSec - now,
                                   TicksPerSec)
                       ELSE Lookup(index[p], k).expires,
                       "ok")
              ELSE Ret("when_expired", p, k, 0, "KeyError")
    /\ UNCHANGED <<now, dataPath, pathLock, indexFile, walExists, walPath, walLinked,
                   handle, index, dataLinked, fdData, appendBuf, stats, latest, snap,
                   opens, vacuums>>

\* delete(): _delete_unsafe under the lock
Delete(p, k) ==
    /\ Serial(p)
    /\ handle[p] = "open"
    /\ UNCHANGED <<opens, vacuums>>
    /\ IF InIndex(index[p], k)
       THEN /\ AppendWal(p, DelRec(k))
            /\ index' = [index EXCEPT ![p] = IdxDel(index[p], k)]
            /\ stats' = [stats EXCEPT ![p].deletes = @ + 1]
       ELSE UNCHANGED <<walPath, walExists, walLinked, index, stats>>
    /\ latest' = [latest EXCEPT ![p][k] = [val |-> NoVal, expires |-> 0]]
    /\ snap' = NoSnap
    \* ret.arg: 1 when the key was in the index, 0 when the call did nothing
    /\ ret' = Ret("delete", p, k, IF InIndex(index[p], k) THEN 1 ELSE 0, "ok")
    /\ UNCHANGED <<now, dataPath, pathLock, indexFile, handle, dataLinked, fdData,
                   appendBuf>>

RECURSIVE Tombstones(_)
\* The records _delete_unsafe appends for the entries of the list, in order.
Tombstones(entries) ==
    IF entries = <<>> THEN <<>>
    ELSE <<DelRec(Head(entries).key)>> \o Tombstones(Tail(entries))

\* delete_startswith(prefix): the keys of the index that start with the
\* prefix are listed, then _delete_unsafe is called on each.  The list is
\* made before the first _delete_unsafe checks that the store is open.
DeleteStartswith(p, prefix) ==
    /\ Serial(p)
    /\ handle[p] # "none"
    /\ LET keys == SelectSeq(index[p], LAMBDA e : StartsWith(e.key, prefix))
       IN IF keys # <<>> /\ handle[p] = "closed"
          THEN RaiseClosed("delete_startswith", p, prefix)
          ELSE /\ walPath' = IF p \in walLinked THEN walPath \o Tombstones(keys)
                             ELSE walPath
               /\ index' = [index EXCEPT ![p] =
                               SelectSeq(index[p],
                                         LAMBDA e : ~ StartsWith(e.key, prefix))]
               /\ stats' = [stats EXCEPT ![p].deletes = @ + Len(keys)]
               /\ latest' = [latest EXCEPT ![p] =
                                [k \in Keys |->
                                    IF InIndex(keys, k)
                                    THEN [val |-> NoVal, expires |-> 0]
                                    ELSE latest[p][k]]]
               /\ snap' = IF handle[p] = "closed" THEN snap ELSE NoSnap
               \* ret.arg: the number of keys deleted
               /\ ret' = Ret("delete_startswith", p, prefix, Len(keys), "ok")
               /\ UNCHANGED <<now, dataPath, pathLock, indexFile, walExists,
                              walLinked, handle, dataLinked, fdData, appendBuf,
                              opens, vacuums>>

\* The public operations other than delete_startswith and close.
GuardedOps == {"set", "set_on_miss", "get", "has", "delete", "when_expired",
               "get_stats", "fragmentation_ratio", "vacuum"}

\* A public operation called on a closed store: close() raises "already
\* closed", the others fail the assert on data_file_read_fd.
ClosedCall(p, op, k) ==
    /\ Serial(p)
    /\ handle[p] = "closed"
    /\ IF op = "close"
       THEN /\ ret' = Ret("close", p, "", 0, "already closed")
            /\ UNCHANGED <<now, dataPath, pathLock, indexFile, walExists, walPath,
                           walLinked, handle, index, dataLinked, fdData, appendBuf,
                           stats, latest, snap, opens, vacuums>>
       ELSE RaiseClosed(op, p, k)

\* os.replace(tmp_data_file, self.data_file): the path names the new file;
\* descriptors open on the old one keep it, and the new file is not locked.
\* `closing` are the processes that close their descriptors in the same step.
ReplaceData(new, closing) ==
    /\ fdData' = [q \in Procs |-> IF q \in closing THEN <<>>
                                  ELSE IF dataLinked[q] THEN dataPath ELSE fdData[q]]
    /\ dataLinked' = [q \in Procs |-> FALSE]
    /\ dataPath' = new
    /\ pathLock' = 0

\* _save_index_unsafe: write the index, replace the index file, remove the WAL.
SaveIndex(idx) ==
    /\ indexFile' = idx
    /\ walExists' = FALSE
    /\ walPath' = <<>>
    /\ walLinked' = {}

\* vacuum(): _vacuum_unsafe under the lock.  _write_header_unsafe writes the
\* header to data_file_append_fd, the descriptor of the current data file.
Vacuum(p) ==
    /\ Serial(p)
    /\ handle[p] = "open"
    /\ vacuums[p] < MaxVacuums
    /\ vacuums' = [vacuums EXCEPT ![p] = vacuums[p] + 1]
    /\ UNCHANGED opens
    /\ appendBuf' = [appendBuf EXCEPT ![p] = appendBuf[p] \o <<Hdr>>]
    /\ ReplaceData(Vacuumed(p).data, {})
    /\ index' = [index EXCEPT ![p] = Vacuumed(p).index]
    /\ SaveIndex(Vacuumed(p).index)
    /\ snap' = [NoSnap EXCEPT !.kind = "vacuum", !.view = ViewOf(p)]
    /\ ret' = Ret("vacuum", p, "", 0, "ok")
    /\ UNCHANGED <<now, handle, stats, latest>>

\* close()
Close(p) ==
    /\ Serial(p)
    /\ handle[p] = "open"
    /\ UNCHANGED <<opens, vacuums>>
    /\ IF AutoVacuum(p)
       THEN \* _vacuum_unsafe; the descriptors, closed next, are the old file's
            /\ ReplaceData(Vacuumed(p).data, {p})
            /\ index' = [index EXCEPT ![p] = Vacuumed(p).index]
            /\ SaveIndex(Vacuumed(p).index)
       ELSE \* data_file_append_fd.close() flushes; the lock is released
            /\ dataPath' = IF dataLinked[p] THEN Flushed(p, <<>>) ELSE dataPath
            /\ pathLock' = IF dataLinked[p] /\ pathLock = p THEN 0 ELSE pathLock
            /\ dataLinked' = [dataLinked EXCEPT ![p] = FALSE]
            /\ fdData' = [fdData EXCEPT ![p] = <<>>]
            /\ SaveIndex(index[p])
            /\ UNCHANGED index
    /\ appendBuf' = [appendBuf EXCEPT ![p] = <<>>]
    /\ handle' = [handle EXCEPT ![p] = "closed"]
    /\ latest' = [latest EXCEPT ![p] = NoLatest]
    /\ snap' = [NoSnap EXCEPT !.kind = "close", !.view = ViewOf(p)]
    \* ret.arg: 1 when close() ran _vacuum_unsafe, 0 when it did not
    /\ ret' = Ret("close", p, "", IF AutoVacuum(p) THEN 1 ELSE 0, "ok")
    /\ UNCHANGED <<now, stats>>

\* close() up to the release of the file lock: the vacuum when the ratio asks
\* for it, then the read and WAL descriptors are closed, flock is released
\* on the append descriptor and the append descriptor is closed.  The
\* thread lock stays held; _save_index_unsafe is still to come.
CloseRelease(p) ==
    /\ mutex[p] = 0
    /\ p = Writer => \E t \in Threads : pc[t].at = "idle"
    /\ handle[p] = "open"
    /\ mutex' = [mutex EXCEPT ![p] = IF p = Writer
                                     THEN CHOOSE t \in Threads : pc[t].at = "idle"
                                     ELSE 1]
    /\ IF AutoVacuum(p)
       THEN /\ ReplaceData(Vacuumed(p).data, {p})
            /\ index' = [index EXCEPT ![p] = Vacuumed(p).index]
            /\ SaveIndex(Vacuumed(p).index)
       ELSE /\ dataPath' = IF dataLinked[p] THEN Flushed(p, <<>>) ELSE dataPath
            /\ pathLock' = IF dataLinked[p] /\ pathLock = p THEN 0 ELSE pathLock
            /\ dataLinked' = [dataLinked EXCEPT ![p] = FALSE]
            /\ fdData' = [fdData EXCEPT ![p] = <<>>]
            /\ walLinked' = walLinked \ {p}
            /\ UNCHANGED <<index, indexFile, walExists, walPath>>
    /\ appendBuf' = [appendBuf EXCEPT ![p] = <<>>]
    /\ handle' = [handle EXCEPT ![p] = "closing"]
    /\ snap' = [NoSnap EXCEPT !.kind = "close", !.view = ViewOf(p)]
    /\ UNCHANGED <<now, stats, latest, opens, vacuums, ret, pc>>

\* The end of close(): _save_index_unsafe writes self.index to the index
\* file and removes the file at the WAL path; the thread lock is released.
CloseSave(p) ==
    /\ handle[p] = "closing"
    /\ SaveIndex(index[p])
    /\ handle' = [handle EXCEPT ![p] = "closed"]
    /\ mutex' = [mutex EXCEPT ![p] = 0]
    /\ latest' = [latest EXCEPT ![p] = NoLatest]
    /\ ret' = Ret("close", p, "", 0, "ok")
    /\ UNCHANGED <<now, dataPath, pathLock, index, dataLinked, fdData, appendBuf,
                   stats, snap, opens, vacuums, pc>>

\* The process dies (kill, power loss) between two operations: its memory,
\* buffers and descriptors are gone, the files stay as they are.
Dies(p) ==
    /\ handle' = [handle EXCEPT ![p] = "none"]
    /\ index' = [index EXCEPT ![p] = <<>>]
    /\ appendBuf' = [appendBuf EXCEPT ![p] = <<>>]
    /\ dataLinked' = [dataLinked EXCEPT ![p] = FALSE]
    /\ pathLock' = IF dataLinked[p] /\ pathLock = p THEN 0 ELSE pathLock
    /\ walLinked' = walLinked \ {p}
    /\ stats' = [stats EXCEPT ![p] = NoStats]
    /\ latest' = [latest EXCEPT ![p] = NoLatest]
    /\ mutex' = [mutex EXCEPT ![p] = 0]
    /\ pc' = IF p = Writer THEN [t \in Threads |-> Idle] ELSE pc

Crash(p) ==
    /\ handle[p] = "open"
    /\ UNCHANGED <<opens, vacuums>>
    /\ Dies(p)
    /\ fdData' = [fdData EXCEPT ![p] = <<>>]
    /\ snap' = [NoSnap EXCEPT !.kind = "crash", !.view = ViewOf(p)]
    /\ ret' = Ret("crash", p, "", 0, "")
    /\ UNCHANGED <<now, dataPath, indexFile, walExists, walPath>>

\* Where a crash can cut _set_unsafe: before the data-file write, inside it,
\* after its flush, inside the WAL record (within the key length, or after
\* it), after the WAL flush.
CrashPoints == {"start", "data_torn", "data_done", "wal_len", "wal_body", "wal_done"}

\* The process dies inside set(k, v, ttl), at crash point pt.
CrashInSet(p, k, v, ttl, pt) ==
    /\ handle[p] = "open"
    /\ UNCHANGED <<opens, vacuums>>
    /\ HasRoom(p)
    /\ Dies(p)
    /\ fdData' = [fdData EXCEPT ![p] = <<>>]
    /\ LET e == Entry(k, Tell(p), FrameLength(v), Expires(ttl, now))
           written == IF pt = "start" THEN <<>>
                      ELSE IF pt = "data_torn" THEN <<Junk(TornLen)>>
                      ELSE <<Frame(v)>>
           rec == IF pt = "wal_len" THEN <<CutRec(k, "len")>>
                  ELSE IF pt = "wal_body" THEN <<CutRec(k, "body")>>
                  ELSE IF pt = "wal_done" THEN <<PutRec(e)>>
                  ELSE <<>>
       IN /\ dataPath' = IF dataLinked[p] /\ written # <<>>
                         THEN Flushed(p, written) ELSE dataPath
          /\ walPath' = IF p \in walLinked THEN walPath \o rec ELSE walPath
    /\ snap' = [kind |-> "crashset", view |-> ViewOf(p), key |-> k, val |-> v]
    /\ ret' = Ret("crash", p, k, ttl, pt)
    /\ UNCHANGED <<now, indexFile, walExists>>

\* Where a crash can cut _vacuum_unsafe: while the temporary data file is
\* written, after os.replace of the data file, after os.replace of the index
\* file and before os.remove of the WAL.
VacuumCrashPoints == {"tmp", "data_replaced", "index_replaced"}

\* The process dies inside vacuum(), at crash point pt.  The header written
\* to the append descriptor is still in its buffer and is lost.
CrashInVacuum(p, pt) ==
    /\ handle[p] = "open"
    /\ UNCHANGED <<opens, vacuums>>
    /\ Dies(p)
    /\ fdData' = [fdData EXCEPT ![p] = <<>>]
    /\ dataPath' = IF pt = "tmp" THEN dataPath ELSE Vacuumed(p).data
    /\ indexFile' = IF pt = "index_replaced" THEN Vacuumed(p).index ELSE indexFile
    /\ snap' = [NoSnap EXCEPT !.kind = "crashvacuum", !.view = ViewOf(p)]
    /\ ret' = Ret("crash", p, "", 0, pt)
    /\ UNCHANGED <<now, walExists, walPath>>

\* The wall clock advances.
Tick ==
    /\ now < MaxNow
    /\ now' = now + 1
    /\ snap' = NoSnap
    /\ ret' = Ret("tick", 0, "", 0, "")
    /\ UNCHANGED <<dataPath, pathLock, indexFile, walExists, walPath, walLinked,
                   handle, index, dataLinked, fdData, appendBuf, stats, latest,
                   opens, vacuums, mutex, pc>>

\* One process, no crash, no expiry: the store's operations on one handle
\* and across close and reopen.
Next ==
    \/ Open(Writer)
    \/ Close(Writer)
    \/ \E k \in Keys, v \in Values : Set(Writer, k, v, NoTtl)
    \/ \E k \in Keys : Get(Writer, k)
    \/ \E k \in Keys : Delete(Writer, k)
    \/ Vacuum(Writer)

Spec == Init /\ [][Next]_vars

\* Sets with ttls and a clock that advances, without vacuum.
NextTtl ==
    \/ Open(Writer)
    \/ Close(Writer)
    \/ \E k \in Keys, v \in Values, ttl \in Ttls : Set(Writer, k, v, ttl)
    \/ \E k \in Keys : Delete(Writer, k)
    \/ Tick

SpecTtl == Init /\ [][NextTtl]_vars

\* One process that may die at any point, between operations or inside set().
NextCrash ==
    \/ Open(Writer)
    \/ Close(Writer)
    \/ \E k \in Keys, v \in Values : Set(Writer, k, v, NoTtl)
    \/ \E k \in Keys : Delete(Writer, k)
    \/ Vacuum(Writer)
    \/ Crash(Writer)
    \/ \E k \in Keys, v \in Values, pt \in CrashPoints :
           CrashInSet(Writer, k, v, NoTtl, pt)

SpecCrash == Init /\ [][NextCrash]_vars

\* Two processes on the same base path.
NextProcs ==
    \/ \E p \in Procs : Open(p)
    \/ \E p \in Procs : Close(p)
    \/ \E k \in Keys, v \in Values : Set(Writer, k, v, NoTtl)
    \/ \E k \in Keys : Delete(Writer, k)
    \/ Vacuum(Writer)

SpecProcs == Init /\ [][NextProcs]_vars

\* Sets of values of every accepted category, read back on the same handle.
NextValues ==
    \/ Open(Writer)
    \/ Close(Writer)
    \/ \E k \in Keys, v \in AcceptedValues : Set(Writer, k, v, NoTtl)
    \/ \E k \in Keys : Get(Writer, k)

SpecValues == Init /\ [][NextValues]_vars

\* Two threads of one process calling set_on_miss on one handle.
NextThreads ==
    \/ Open(Writer)
    \/ Close(Writer)
    \/ \E t \in Threads, k \in Keys, v \in Values : SomCall(Writer, t, k, v, NoTtl)
    \/ \E t \in Threads : SomEnter(Writer, t)
    \/ \E t \in Threads : SomTest(Writer, t)
    \/ \E t \in Threads : SomSet(Writer, t)
    \/ \E k \in Keys : Delete(Writer, k)

SpecThreads == Init /\ [][NextThreads]_vars

\* get with a refresh callback, on keys that expire as the clock advances.
NextRefresh ==
    \/ Open(Writer)
    \/ Close(Writer)
    \/ \E k \in Keys, v \in Values, ttl \in Ttls : Set(Writer, k, v, ttl)
    \/ \E t \in Threads, k \in Keys, ttl \in Ttls : GetRefresh(Writer, t, k, ttl)
    \/ \E t \in Threads, v \in Values : CallbackReturns(Writer, t, v)
    \/ \E t \in Threads : CallbackCalls(Writer, t)
    \/ Tick

SpecRefresh == Init /\ [][NextRefresh]_vars

\* Deletion by prefix, and calls made on a store after its close.
NextOps ==
    \/ Open(Writer)
    \/ Close(Writer)
    \/ \E k \in Keys, v \in Values : Set(Writer, k, v, NoTtl)
    \/ \E prefix \in Prefixes : DeleteStartswith(Writer, prefix)
    \/ Vacuum(Writer)
    \/ \E op \in GuardedOps \cup {"close"}, k \in Keys : ClosedCall(Writer, op, k)

SpecOps == Init /\ [][NextOps]_vars

\* One process whose WAL writes may fail.
NextFaults ==
    \/ Open(Writer)
    \/ Close(Writer)
    \/ \E k \in Keys, v \in Values : Set(Writer, k, v, NoTtl)
    \/ \E k \in Keys, v \in Values, cut \in WalFailures :
           SetWalFails(Writer, k, v, NoTtl, cut)
    \/ \E k \in Keys : Get(Writer, k)
    \/ \E k \in Keys : Delete(Writer, k)

SpecFaults == Init /\ [][NextFaults]_vars

\* get with a refresh callback that returns or calls back into the store.
\* A callback that has not called into the store returns: it is a function
\* of the caller's that computes a value.
NextLock ==
    \/ Open(Writer)
    \/ Close(Writer)
    \/ \E t \in Threads, k \in Keys : GetRefresh(Writer, t, k, NoTtl)
    \/ \E t \in Threads, v \in Values : CallbackReturns(Writer, t, v)
    \/ \E t \in Threads : CallbackCalls(Writer, t)
    \/ \E k \in Keys : Delete(Writer, k)

SpecLock ==
    /\ Init
    /\ [][NextLock]_vars
    /\ \A t \in Threads : WF_vars(\E v \in Values : CallbackReturns(Writer, t, v))

\* Sets with ttls, a clock that advances, and vacuum.
NextExpiry ==
    \/ Open(Writer)
    \/ Close(Writer)
    \/ \E k \in Keys, v \in Values, ttl \in Ttls : Set(Writer, k, v, ttl)
    \/ Vacuum(Writer)
    \/ Tick

SpecExpiry == Init /\ [][NextExpiry]_vars

\* Rewrites of existing keys with frames of several sizes; no delete.
NextFrag ==
    \/ Open(Writer)
    \/ Close(Writer)
    \/ \E k \in Keys, v \in SizedValues : Set(Writer, k, v, NoTtl)
    \/ \E k \in Keys, v \in SizedValues : SetExisting(Writer, k, v)

SpecFrag == Init /\ [][NextFrag]_vars

\* Calls that raise on one open handle: sets of rejected values, get and
\* when_expired of keys that were never set or have expired.
NextErrors ==
    \/ Open(Writer)
    \/ \E k \in Keys, v \in {"abc"} \cup RejectedValues, ttl \in {NoTtl, MaxTtl} :
           Set(Writer, k, v, ttl)
    \/ \E k \in Keys : Get(Writer, k)
    \/ \E k \in Keys, relative \in BOOLEAN : WhenExpired(Writer, k, relative)
    \/ Tick

SpecErrors == Init /\ [][NextErrors]_vars

\* Closes of stores at every fragmentation the sets and vacuums of one
\* process produce.
NextClose ==
    \/ Open(Writer)
    \/ Close(Writer)
    \/ \E k \in Keys, v \in Values : Set(Writer, k, v, NoTtl)
    \/ Vacuum(Writer)

SpecClose == Init /\ [][NextClose]_vars

\* A process that sets with ttls, deletes and dies between operations, and
\* is opened again as the clock advances.
NextRecovery ==
    \/ Open(Writer)
    \/ Close(Writer)
    \/ \E k \in Keys, v \in Values, ttl \in Ttls : Set(Writer, k, v, ttl)
    \/ \E k \in Keys : Delete(Writer, k)
    \/ Crash(Writer)
    \/ Tick

SpecRecovery == Init /\ [][NextRecovery]_vars

\* One process that may die inside vacuum().
NextVacuumCrash ==
    \/ Open(Writer)
    \/ Close(Writer)
    \/ \E k \in Keys, v \in Values : Set(Writer, k, v, NoTtl)
    \/ \E k \in Keys : Delete(Writer, k)
    \/ \E pt \in VacuumCrashPoints : CrashInVacuum(Writer, pt)

SpecVacuumCrash == Init /\ [][NextVacuumCrash]_vars

\* Two processes on one base path, each close in its two parts: up to the
\* release of the file lock, and the save of the index that follows it.
NextHandOver ==
    \/ \E p \in Procs : Open(p)
    \/ \E p \in Procs : CloseRelease(p)
    \/ \E p \in Procs : CloseSave(p)
    \/ \E p \in Procs, k \in Keys, v \in Values : Set(p, k, v, NoTtl)

SpecHandOver == Init /\ [][NextHandOver]_vars

\* ------------------------------------------------------------ claims ----

\* C1 (read-your-writes): on an open handle, every key whose latest set(k, v)
\* on that handle was not followed by a delete and has not expired is
\* observable, has(k) is true, and get(k) returns v.
C1_ReadYourWrites ==
    \A p \in Procs : handle[p] = "open" =>
        \A k \in Keys :
            (latest[p][k].val # NoVal /\ LoadKeeps(latest[p][k].expires, now))
            => (HasUnsafe(p, k) /\ GetValue(p, k) = latest[p][k].val)

\* C2 (clean persistence): a store reopened after close(), with no crash and
\* no clock advance in between, shows for every key what it showed
\* immediately before the close.
C2_CleanPersistence ==
    (ret.op = "open" /\ ret.val = "ok" /\ snap.kind = "close")
    => ViewOf(ret.p) = snap.view

\* C3 (durability): while the store is open, a crash followed by a reopen
\* would load every unexpired key of the in-memory index with the same
\* entry, and no key the index does not hold: every key is described by the
\* index file or the WAL, every deletion is journaled.
C3_Durable ==
    \A p \in Procs : handle[p] = "open" =>
        /\ ~ LoadRaises(walExists, walPath)
        /\ LET onDisk == LoadIndex(indexFile, walExists, walPath, now)
           IN \A k \in Keys :
                 /\ (InIndex(index[p], k)
                     /\ LoadKeeps(Lookup(index[p], k).expires, now))
                    => (InIndex(onDisk, k)
                        /\ Lookup(onDisk, k) = Lookup(index[p], k))
                 /\ ~ InIndex(index[p], k) => ~ InIndex(onDisk, k)

\* C4 (crash atomicity of set): after a crash at any point inside set(k, v)
\* the next open succeeds, k shows v or what it showed before the set, and
\* every other key shows what it showed before.
C4_CrashAtomicSet ==
    (snap.kind = "crashset" /\ ret.op = "open")
    => /\ ret.val = "ok"
       /\ \A j \in Keys :
             IF j = snap.key
             THEN View(ret.p, j) \in {snap.val, snap.view[j]}
             ELSE View(ret.p, j) = snap.view[j]

\* C5 (vacuum preserves contents): right after vacuum() every key shows on
\* the same handle what it showed before the vacuum.
C5_VacuumPreserves ==
    ret.op = "vacuum" => ViewOf(ret.p) = snap.view

\* C6: right after vacuum() the fragmentation ratio is 0.
C6_VacuumZeroFragmentation ==
    ret.op = "vacuum" => FragNum(ret.p) = 0

\* C7: on every open store the fragmentation ratio is within [0, 1].
C7_FragmentationInUnitRange ==
    \A p \in Procs : handle[p] = "open" =>
        (0 <= FragNum(p) /\ FragNum(p) <= FragDen(p))

\* C8 (cross-process exclusion): an open attempted while another process
\* holds the store open fails with busy.
C8_ProcessExclusion ==
    (ret.op = "open" /\ \E q \in Procs \ {ret.p} : handle[q] = "open")
    => ret.val = "busy"

\* C9 (observability): has(k) is true iff k is in the index and its
\* expiration is 0 or strictly greater than now, the predicate of the
\* expiry filter of recovery.
C9_HasIsStrictlyUnexpired ==
    \A p \in Procs : handle[p] = "open" =>
        \A k \in Keys :
            HasUnsafe(p, k)
            <=> (InIndex(index[p], k)
                 /\ LoadKeeps(Lookup(index[p], k).expires, now))

\* C10 (ttl translation): set(k, v, ttl) stores expiration int(now + ttl) for
\* every ttl passed, 0 included, and expiration 0 only when ttl is omitted.
C10_TtlTranslation ==
    ret.op = "set" =>
        /\ InIndex(index[ret.p], ret.key)
        /\ Lookup(index[ret.p], ret.key).expires
             = IF ret.arg = NoTtl THEN 0
               ELSE (now + ret.arg * TicksPerSec) \div TicksPerSec

\* C11 (value round-trip): set(k, v) succeeds for a value v of every accepted
\* category (null, boolean, integer, floating-point, string, sequence,
\* mapping, raw bytes), and a get(k) that follows it on the handle returns a
\* value equal to v, bytes as bytes and structured values as themselves.
C11_ValueRoundTrip ==
    /\ ret.op = "set" => ret.val = "ok"
    /\ (ret.op = "get" /\ latest[ret.p][ret.key].val # NoVal)
       => ret.val = latest[ret.p][ret.key].val

\* C12 (set_on_miss): a thread's set_on_miss(k, v) returns without a set only
\* when has(k) is true, and then index, data file, WAL and counters are as
\* they were; it performs the set only while has(k) is still false at the
\* moment of the set, whatever the other thread does, and the set counts
\* once in sets and leaves v as the value of k.
C12_SetOnMissAtomic ==
    [][\A t \in Threads, k \in Keys :
          pc[t].key = k =>
            /\ (pc[t].at = "som_test" /\ pc'[t].at = "idle" /\ handle[Writer] = "open")
               => /\ HasUnsafe(Writer, k)
                  /\ UNCHANGED <<index, dataPath, fdData, appendBuf, walPath,
                                 walExists, stats>>
            /\ (pc[t].at = "som_test" /\ pc'[t].at = "som_set")
               => ~ HasUnsafe(Writer, k)
            /\ (pc[t].at = "som_set" /\ pc'[t].at = "idle")
               => /\ ~ HasUnsafe(Writer, k)
                  /\ stats'[Writer].sets = stats[Writer].sets + 1
                  /\ HasUnsafe(Writer, k)'
                  /\ GetValue(Writer, k)' = pc[t].val
      ]_vars

\* A thread has just written k through set_on_miss while the other thread,
\* which called set_on_miss(k, w) with another value, waits for the lock.
C12_Witness ==
    \E t \in Threads :
        /\ pc[t].at = "som_wait"
        /\ ret = Ret("set_on_miss", Writer, pc[t].key, NoTtl, "set")
        /\ HasUnsafe(Writer, pc[t].key)
        /\ GetValue(Writer, pc[t].key) # pc[t].val

\* A key is observable: it is in the index and its expiration is 0 or
\* strictly in the future.
Observable(p, k) ==
    InIndex(index[p], k) /\ LoadKeeps(Lookup(index[p], k).expires, now)

\* C13 (refresh on miss): get(k, refresh_callback, new_ttl) calls the callback
\* only when k is absent or expired, counting one miss and one refresh and no
\* hit; when the callback returns, the value is stored under k with
\* expiration int(now + new_ttl) (0 without new_ttl) and returned, so has(k)
\* is true and get(k) gives that value; a get that counts a hit is on an
\* observable key, calls no callback and changes no other counter.
C13_RefreshOnMiss ==
    [][\A t \in Threads, k \in Keys :
          /\ (pc[t].at = "idle" /\ pc'[t].at = "callback" /\ pc'[t].key = k)
             => /\ ~ Observable(Writer, k)
                /\ stats'[Writer] = [stats[Writer] EXCEPT !.misses = @ + 1,
                                                          !.refreshes = @ + 1]
          /\ (pc[t].at = "callback" /\ pc'[t].at = "idle" /\ pc[t].key = k)
             => /\ ret'.op = "get"
                /\ HasUnsafe(Writer, k)'
                /\ GetValue(Writer, k)' = ret'.val
                /\ Lookup(index'[Writer], k).expires
                     = IF pc[t].ttl = NoTtl THEN 0
                       ELSE (now + pc[t].ttl * TicksPerSec) \div TicksPerSec
                /\ stats'[Writer] = [stats[Writer] EXCEPT !.sets = @ + 1]
          /\ (ret'.op = "get" /\ ret'.key = k
              /\ stats'[Writer].hits # stats[Writer].hits)
             => /\ Observable(Writer, k)
                /\ pc' = pc
                /\ stats'[Writer] = [stats[Writer] EXCEPT !.hits = @ + 1]
                /\ UNCHANGED <<index, dataPath, fdData, appendBuf, walPath>>
      ]_vars

\* C14 (delete): delete(k) of a key in the index appends one tombstone for k
\* to the WAL, removes k from the index and adds 1 to deletes, after which
\* has(k) is false on the handle and k is not loaded by a reopen that
\* follows a close or a crash; delete(k) of a key not in the index changes
\* neither index, WAL, data file nor counters.
C14_Delete ==
    /\ []((ret.op = "delete" /\ ret.arg = 1)
          => /\ ~ HasUnsafe(ret.p, ret.key)
             /\ ~ LoadRaises(walExists, walPath)
             /\ ~ InIndex(LoadIndex(indexFile, walExists, walPath, now), ret.key))
    /\ [][\A k \in Keys :
            (ret'.op = "delete" /\ ret'.key = k)
            => IF InIndex(index[Writer], k)
               THEN /\ walPath' = Append(walPath, DelRec(k))
                    /\ ~ InIndex(index'[Writer], k)
                    /\ stats'[Writer] = [stats[Writer] EXCEPT !.deletes = @ + 1]
               ELSE UNCHANGED <<index, walPath, walExists, dataPath, fdData,
                               appendBuf, stats>>
         ]_vars

\* C15 (delete_startswith): delete_startswith(prefix) on an open store leaves
\* no key that starts with the prefix in the index, keeps the entry of every
\* other key as it was, appends to the WAL one tombstone per key it removed
\* and nothing else, and adds the number of removed keys to deletes.
C15_DeleteStartswith ==
    [][\A prefix \in Prefixes :
          (ret'.op = "delete_startswith" /\ ret'.key = prefix
           /\ handle[Writer] = "open")
          => LET removed == {k \in Keys : /\ InIndex(index[Writer], k)
                                         /\ StartsWith(k, prefix)}
             IN /\ \A k \in Keys :
                      IF StartsWith(k, prefix)
                      THEN ~ InIndex(index'[Writer], k)
                      ELSE /\ InIndex(index'[Writer], k) <=> InIndex(index[Writer], k)
                           /\ InIndex(index[Writer], k)
                              => Lookup(index'[Writer], k) = Lookup(index[Writer], k)
                /\ stats'[Writer] =
                      [stats[Writer] EXCEPT !.deletes = @ + Cardinality(removed)]
                /\ Len(walPath') = Len(walPath) + Cardinality(removed)
                /\ SubSeq(walPath', 1, Len(walPath)) = walPath
                /\ \A k \in removed :
                      \E i \in (Len(walPath) + 1)..Len(walPath') :
                          walPath'[i] = DelRec(k)
      ]_vars

\* C16 (closed is terminal): every call on a closed store fails, a second
\* close() with already-closed and every other public operation with a
\* closed error, and changes neither the index nor any of the three files.
C16_ClosedIsTerminal ==
    [][(handle[Writer] = "closed" /\ handle'[Writer] = "closed")
       => /\ ret'.val = IF ret'.op = "close" THEN "already closed" ELSE "closed"
          /\ UNCHANGED <<index, dataPath, indexFile, walPath, walExists>>
      ]_vars

\* C17 (WAL deletion ordering): whenever a step (recovery at open, vacuum,
\* close) removes a WAL that holds records, the index file it leaves holds
\* the effect of every one of them: a key the WAL has a whole record for is
\* in the new index file exactly if the old index file with that WAL
\* replayed on it describes it.
C17_WalDeletionOrdering ==
    [][(walExists /\ walPath # <<>>
        /\ (~ walExists' \/ Len(walPath') < Len(walPath)))
       => \A k \in Keys :
             (\E i \in 1..Len(walPath) :
                 walPath[i].key = k /\ walPath[i].op \in {"put", "del"})
             => (InIndex(indexFile', k)
                 <=> InIndex(LoadIndex(indexFile, walExists, walPath, now), k))
      ]_vars

\* C18 (write ordering in set): the index is updated only after the put
\* record is in the WAL: every step of set() that gives a key a new index
\* entry also appends the put record of that entry to the WAL, and a set()
\* whose WAL append fails leaves the index as it was.
C18_WalBeforeIndex ==
    [][ret'.op = "set" =>
          /\ \A k \in Keys :
                (/\ InIndex(index'[Writer], k)
                 /\ InIndex(index[Writer], k)
                    => Lookup(index'[Writer], k) # Lookup(index[Writer], k))
                => /\ Len(walPath') = Len(walPath) + 1
                   /\ walPath'[Len(walPath')] = PutRec(Lookup(index'[Writer], k))
          /\ ret'.val = "OSError" => index' = index
      ]_vars

RECURSIVE WholeRecords(_)
\* The whole records of a WAL that precede its first partial record.
WholeRecords(wal) ==
    IF wal = <<>> \/ Head(wal).op \in {"len", "body"} THEN <<>>
    ELSE <<Head(wal)>> \o WholeRecords(Tail(wal))

\* C19 (truncated-tail tolerance): an open of a store no other process holds
\* succeeds also when the WAL ends in a partial record, cut anywhere; the
\* index it loads is the index file with every whole record before the
\* partial one applied, and the partial record is ignored.
C19_TruncatedTailTolerated ==
    [][(ret'.op = "open" /\ opens' = opens + 1 /\ ret'.val # "busy")
       => /\ ret'.val = "ok"
          /\ index'[ret'.p] =
                LoadIndex(indexFile, walExists, WholeRecords(walPath), now)
      ]_vars

\* C20 (termination): a thread that has taken the store's mutex in a public
\* operation, get with a refresh callback included, whatever the callback
\* calls, eventually ends the operation and releases the mutex.
C20_OperationsReturn ==
    \A t \in Threads :
        (mutex[Writer] = t) ~> (mutex[Writer] = 0 /\ pc[t].at = "idle")

\* An expiration that has passed at time t.
Passed(expires, t) == expires # 0 /\ t > expires * TicksPerSec

\* C21 (vacuum drops expired entries): right after vacuum() the in-memory
\* index and the saved index file hold no entry whose expiration has passed,
\* and the rebuilt data file is made of the bytes of the entries whose
\* expiration has not passed and of nothing else.
C21_VacuumDropsExpired ==
    ret.op = "vacuum" =>
        /\ \A i \in 1..Len(index[ret.p]) : ~ Passed(index[ret.p][i].expires, now)
        /\ \A i \in 1..Len(indexFile) : ~ Passed(indexFile[i].expires, now)
        /\ Size(dataPath) =
              SumLength(SelectSeq(index[ret.p],
                                  LAMBDA e : ~ Passed(e.expires, now)))

\* C22, as the specification states it: a set to an existing key whose new
\* frame is at least as large as the frame it replaces never lowers the
\* fragmentation ratio.
C22_FragmentationMonotone ==
    [][\A k \in Keys :
          (/\ ret'.op = "set" /\ ret'.val = "ok" /\ ret'.key = k
           /\ InIndex(index[Writer], k)
           /\ Lookup(index'[Writer], k).length >= Lookup(index[Writer], k).length)
          => FragNum(Writer)' * FragDen(Writer) >= FragNum(Writer) * FragDen(Writer)'
      ]_vars

\* Whether the ratio stays or rises when a frame of `old` bytes is replaced
\* by one of `new` bytes, with sizeFile data bytes in the file and sizeIndex
\* bytes in the index before the set.
KeepsRatio(sizeFile, sizeIndex, old, new) ==
    IF sizeFile > 0
    THEN new * (sizeFile - sizeIndex) <= old * sizeFile
    ELSE sizeFile + new <= 0 \/ sizeIndex - old <= sizeFile

\* C22 (fragmentation under rewrites, amended): a set to an existing key that
\* replaces a frame of l bytes by one of L >= l bytes leaves the
\* fragmentation ratio equal or higher exactly when L * (F - S) <= l * F,
\* with F the bytes of the file after the header and S the sum of the index
\* lengths before the set (when F <= 0, where the ratio is clamped to 0:
\* exactly when F + L <= 0 or S - l <= F); otherwise the ratio falls.
C22_FragmentationUnderRewrite ==
    [][\A k \in Keys :
          (/\ ret'.op = "set" /\ ret'.val = "ok" /\ ret'.key = k
           /\ InIndex(index[Writer], k)
           /\ Lookup(index'[Writer], k).length >= Lookup(index[Writer], k).length)
          => ((FragNum(Writer)' * FragDen(Writer) >= FragNum(Writer) * FragDen(Writer)')
              <=> KeepsRatio(SizeFile(Writer), SumLength(index[Writer]),
                             Lookup(index[Writer], k).length,
                             Lookup(index'[Writer], k).length))
      ]_vars

\* The only key of the index has just been rewritten with a frame larger
\* than the one before it in the file, and the ratio is lower than it was
\* before the set.
C22_Witness ==
    /\ ret.op = "set" /\ ret.val = "ok"
    /\ handle[Writer] = "open" /\ dataLinked[Writer]
    /\ Len(index[Writer]) = 1
    /\ LET n == Len(dataPath)
       IN /\ n >= 4
          /\ dataPath[n].size > dataPath[n - 1].size
          /\ Lookup(index[Writer], ret.key).start = Offset(dataPath, n)
          /\ FragNum(Writer) * (SizeFile(Writer) - dataPath[n].size)
               < (SizeFile(Writer) - dataPath[n].size - dataPath[n - 1].size)
                   * FragDen(Writer)

\* C23 (errors leave storage untouched): a set of a value of an unsupported
\* type raises ValueError or TypeError, a get without callback of a key that
\* is not in the index or has expired raises KeyError, and so does
\* when_expired of a key that is not in the index; every call that raises
\* one of these leaves the in-memory index, the data file (the bytes still
\* buffered for it included), the WAL and the index file as they were.
C23_ErrorsLeaveStorage ==
    [][/\ \A k \in Keys, v \in RejectedValues, ttl \in Ttls :
             Set(Writer, k, v, ttl) => ret'.val \in {"ValueError", "TypeError"}
       /\ \A k \in Keys :
             (/\ ret'.op = "get" /\ ret'.key = k
              /\ (~ InIndex(index[Writer], k)
                  \/ Passed(Lookup(index[Writer], k).expires, now)))
             => ret'.val = "KeyError"
       /\ \A k \in Keys :
             (ret'.op = "when_expired" /\ ret'.key = k /\ ~ InIndex(index[Writer], k))
             => ret'.val = "KeyError"
       /\ (/\ ret'.op \in {"set", "get", "when_expired"}
           /\ ret'.val \in {"ValueError", "TypeError", "KeyError"})
          => UNCHANGED <<index, dataPath, fdData, appendBuf, walPath, walExists,
                         indexFile>>
      ]_vars

\* A set of a rejected value, a get of a key whose expiration has passed, or
\* a when_expired of a key that is not in the index, has just raised on a
\* store that holds a key.
C23_Witness ==
    /\ handle[Writer] = "open"
    /\ index[Writer] # <<>>
    /\ walPath # <<>>
    /\ \/ ret.op = "set" /\ ret.val \in {"ValueError", "TypeError"}
       \/ /\ ret.op = "get" /\ ret.val = "KeyError"
          /\ InIndex(index[Writer], ret.key)
          /\ Passed(Lookup(index[Writer], ret.key).expires, now)
       \/ /\ ret.op = "when_expired" /\ ret.val = "KeyError"
          /\ ~ InIndex(index[Writer], ret.key)

\* C24 (close): close() runs the vacuum exactly when the fragmentation ratio
\* at the time of the close is strictly greater than auto_vacuum_threshold;
\* with the vacuum the data file and the index file are the rebuilt ones,
\* without it the data file is the flushed one and the index file the index
\* as it was; in both cases the handle is closed with no descriptor left on
\* the data file or the WAL, the process does not hold the lock, the index
\* file is the index and there is no WAL file.
C24_Close ==
    [][(ret'.op = "close" /\ ret'.val = "ok")
       => LET p == ret'.p
          IN /\ ret'.arg = 1
                <=> FragNum(p) * AutoVacuumDen > AutoVacuumNum * FragDen(p)
             /\ ret'.arg = 1
                => /\ dataPath' = Vacuumed(p).data
                   /\ indexFile' = Vacuumed(p).index
             /\ ret'.arg = 0
                => /\ dataPath' = IF dataLinked[p] THEN Flushed(p, <<>>) ELSE dataPath
                   /\ indexFile' = index[p]
             /\ handle'[p] = "closed"
             /\ ~ dataLinked'[p] /\ fdData'[p] = <<>> /\ appendBuf'[p] = <<>>
             /\ p \notin walLinked'
             /\ pathLock' # p
             /\ indexFile' = index'[p]
             /\ ~ walExists'
      ]_vars

\* A close has just happened at a ratio equal to the threshold, without
\* vacuum: the data file still holds the header and both frames.
C24_Witness ==
    /\ ret.op = "close" /\ ret.val = "ok" /\ ret.arg = 0
    /\ Len(dataPath) = 3
    /\ Len(indexFile) = 1
    /\ (Size(dataPath) - HeaderLen - indexFile[1].length) * AutoVacuumDen
          = AutoVacuumNum * (Size(dataPath) - HeaderLen)

\* The records for key k among the given records, in order.
RecordsOf(recs, k) == SelectSeq(recs, LAMBDA r : r.key = k)

\* C25 (recovery is last-writer-wins per key): after the load of an open,
\* a key with a whole record in the WAL is as its last such record says:
\* absent after a delete, absent after a put whose expiration is not in the
\* future, and otherwise with the entry of that put; a key without a WAL
\* record is as its last record of the index file says.
C25_LastWriterWins ==
    [][(ret'.op = "open" /\ ret'.val = "ok" /\ opens' = opens + 1)
       => \A k \in Keys :
             LET p == ret'.p
                 journal == IF walExists THEN RecordsOf(WholeRecords(walPath), k)
                            ELSE <<>>
                 saved == RecordsOf(indexFile, k)
                 last == IF journal # <<>> THEN journal[Len(journal)]
                         ELSE saved[Len(saved)]
             IN IF journal # <<>>
                THEN IF last.op = "put" /\ LoadKeeps(last.expires, now)
                     THEN /\ InIndex(index'[p], k)
                          /\ Lookup(index'[p], k)
                               = Entry(k, last.start, last.length, last.expires)
                     ELSE ~ InIndex(index'[p], k)
                ELSE IF saved # <<>> /\ LoadKeeps(last.expires, now)
                     THEN /\ InIndex(index'[p], k)
                          /\ Lookup(index'[p], k) = last
                     ELSE ~ InIndex(index'[p], k)
      ]_vars

\* C26 (vacuum is crash-safe): after a crash at any step of vacuum() the
\* next open succeeds and every key that showed a value before the vacuum
\* shows the same value.
C26_VacuumCrashSafe ==
    (snap.kind = "crashvacuum" /\ ret.op = "open")
    => /\ ret.val = "ok"
       /\ \A k \in Keys :
             snap.view[k] \notin {Absent, ReadError}
             => View(ret.p, k) = snap.view[k]

\* C27 (hand-over between processes): a process that has released the file
\* lock in close() changes neither the index file nor the WAL file while
\* another process holds the store open, so that process's WAL descriptor
\* stays on the file at the WAL path with its records; and a process that
\* opens the store after the release loads every entry of the closing
\* process's index.
C27_HandOver ==
    [][\A p \in Procs : \A q \in Procs \ {p} :
          /\ (handle[p] = "closing" /\ handle'[p] = "closed" /\ handle[q] = "open")
             => /\ UNCHANGED <<indexFile, walExists, walPath>>
                /\ q \in walLinked => q \in walLinked'
          /\ (handle[p] = "closing" /\ handle[q] # "open" /\ handle'[q] = "open")
             => \A k \in Keys :
                   InIndex(index[p], k)
                   => /\ InIndex(index'[q], k)
                      /\ Lookup(index'[q], k) = Lookup(index[p], k)
      ]_vars

====
